---- MODULE Spec2Model ----
(***************************************************************************)
(* A model of FloraJS's force-accumulation engine: Agent.init and          *)
(* Agent.applyForces with the steering behaviours follow, flock, separate, *)
(* align and cohesion (src/src/agent.js), on top of the Mover, Vector,     *)
(* registry and frame-loop collaborators that the specification describes. *)
(*                                                                         *)
(* Numbers.  A JavaScript Number is modelled as a fixed-point integer with *)
(* Scale units per 1.0 (two decimal digits).  Quotients are truncated       *)
(* toward zero and a magnitude is rounded up to the next representable     *)
(* value, so a magnitude comparison "mag > n" is exact.  A division by     *)
(* zero yields a vector whose nan flag is set (JavaScript's NaN/Infinity), *)
(* and the flag is contagious through every vector operation.              *)
(***************************************************************************)
EXTENDS Integers, Sequences, FiniteSets, TLC

\* Fixed-point units per 1.0 (two decimal digits; the code's fractional
\* literals 0.3, 0.2 and 0.1 are exact).
Scale == 100

\* ------------------------------------------------------------------------
\* Bounds of the model
\* ------------------------------------------------------------------------
\* Number of frames the frame loop is run for.
MaxTicks == 2

\* ------------------------------------------------------------------------
\* Scalar arithmetic
\* ------------------------------------------------------------------------
Abs(n) == IF n < 0 THEN -n ELSE n

\* JavaScript's a / b on Numbers, b # 0, truncated toward zero.
TDiv(a, b) ==
  LET q == Abs(a) \div Abs(b)
  IN  IF (a < 0) = (b < 0) THEN q ELSE -q

\* a * b of two fixed-point Numbers.
FMul(a, b) == TDiv(a * b, Scale)

RECURSIVE SqrtSearch(_, _, _)
SqrtSearch(lo, hi, n) ==
  IF lo >= hi THEN lo
  ELSE LET mid == (lo + hi) \div 2
       IN  IF mid * mid >= n THEN SqrtSearch(lo, mid, n)
           ELSE SqrtSearch(mid + 1, hi, n)

\* Math.sqrt(n), rounded up: the least r with r * r >= n.
SqrtUp(n) == IF n <= 0 THEN 0 ELSE SqrtSearch(0, IF n < 46340 THEN n ELSE 46340, n)

\* ------------------------------------------------------------------------
\* Burner.Vector
\* ------------------------------------------------------------------------
\* new Burner.Vector(x, y)
Vec(x, y) == [x |-> x, y |-> y, nan |-> FALSE]

\* new Burner.Vector(): both components default to 0.
ZeroVec == Vec(0, 0)

VAdd(a, b) == [x |-> a.x + b.x, y |-> a.y + b.y, nan |-> a.nan \/ b.nan]

VSub(a, b) == [x |-> a.x - b.x, y |-> a.y - b.y, nan |-> a.nan \/ b.nan]

VMult(v, n) == [x |-> FMul(v.x, n), y |-> FMul(v.y, n), nan |-> v.nan]

\* Vector.div(n): a division by zero leaves a non-finite vector.
VDiv(v, n) ==
  IF n = 0 THEN [x |-> 0, y |-> 0, nan |-> TRUE]
  ELSE [x |-> TDiv(v.x * Scale, n), y |-> TDiv(v.y * Scale, n), nan |-> v.nan]

MagSq(v) == v.x * v.x + v.y * v.y

Mag(v) == SqrtUp(MagSq(v))

Distance(a, b) == Mag(VSub(a, b))

NormalizeBy(v, m) == IF m # 0 THEN VDiv(v, m) ELSE v

\* Vector.normalize(): the zero vector stays the zero vector.
Normalize(v) == NormalizeBy(v, Mag(v))

\* Vector.limit(high): rescale to magnitude high when longer than high.
Limit(v, high) == IF Mag(v) > high THEN VMult(Normalize(v), high) ELSE v

Finite(v) == ~v.nan

\* ------------------------------------------------------------------------
\* Option maps and construction
\* ------------------------------------------------------------------------
\* An options object is a function whose domain is the set of supplied keys.
Has(o, k) == k \in DOMAIN o

\* typeof o.k === 'undefined' ? d : o.k
OrDefault(o, k, d) == IF Has(o, k) THEN o[k] ELSE d

\* o.k || d for a number-valued option (0 is falsy).
NumOr(o, k, d) == IF Has(o, k) /\ o[k] # 0 THEN o[k] ELSE d

\* !!o.k for a boolean-valued option.
Flag(o, k) == Has(o, k) /\ o[k]

\* null
Null == [null |-> TRUE]

\* The kinematic state and identity every simulated body owns (Mover).
MoverInit(o) ==
  [ id           |-> o.id,
    name         |-> o.name,
    className    |-> o.name,
    location     |-> OrDefault(o, "location", ZeroVec),
    velocity     |-> OrDefault(o, "velocity", ZeroVec),
    acceleration |-> ZeroVec,
    mass         |-> OrDefault(o, "mass", Scale),
    maxSpeed     |-> OrDefault(o, "maxSpeed", Scale),
    width        |-> OrDefault(o, "width", 2 * Scale),
    height       |-> OrDefault(o, "height", 2 * Scale),
    angle        |-> OrDefault(o, "angle", 0),
    motorSpeed   |-> OrDefault(o, "motorSpeed", 0),
    isStatic     |-> Flag(o, "isStatic"),
    c            |-> OrDefault(o, "c", 0),
    G            |-> OrDefault(o, "G", 0) ]

\* Variant: the numeric options are read with options.x || default, so that a
\* supplied 0 is replaced by the default.
AgentInitFalsy(o) ==
  LET m       == MoverInit(o)
      sensors == OrDefault(o, "sensors", << >>)
  IN  m @@
  [ followMouse       |-> Flag(o, "followMouse"),
    maxSteeringForce  |-> NumOr(o, "maxSteeringForce", 10 * Scale),
    seekTarget        |-> OrDefault(o, "seekTarget", Null),
    flocking          |-> Flag(o, "flocking"),
    desiredSeparation |-> NumOr(o, "desiredSeparation", m.width * 2),
    separateStrength  |-> NumOr(o, "separateStrength", (3 * Scale) \div 10),
    alignStrength     |-> NumOr(o, "alignStrength", (2 * Scale) \div 10),
    cohesionStrength  |-> NumOr(o, "cohesionStrength", (1 * Scale) \div 10),
    flowField         |-> OrDefault(o, "flowField", Null),
    sensors           |-> sensors,
    borderWidth       |-> NumOr(o, "borderWidth", 0),
    borderRadius      |-> IF NumOr(o, "borderRadius", Len(sensors)) # 0
                          THEN 100 ELSE 0,
    separateSumForceVector |-> ZeroVec,
    alignSumForceVector    |-> ZeroVec,
    cohesionSumForceVector |-> ZeroVec,
    followTargetVector     |-> ZeroVec,
    followDesiredVelocity  |-> ZeroVec ]

\* Agent.prototype.init
AgentInit(o) ==
  LET m       == MoverInit(o)
      sensors == OrDefault(o, "sensors", << >>)
  IN  m @@
  [ followMouse       |-> Flag(o, "followMouse"),
    maxSteeringForce  |-> OrDefault(o, "maxSteeringForce", 10 * Scale),
    seekTarget        |-> OrDefault(o, "seekTarget", Null),
    flocking          |-> Flag(o, "flocking"),
    desiredSeparation |-> OrDefault(o, "desiredSeparation", m.width * 2),
    separateStrength  |-> OrDefault(o, "separateStrength", (3 * Scale) \div 10),
    alignStrength     |-> OrDefault(o, "alignStrength", (2 * Scale) \div 10),
    cohesionStrength  |-> OrDefault(o, "cohesionStrength", (1 * Scale) \div 10),
    flowField         |-> OrDefault(o, "flowField", Null),
    sensors           |-> sensors,
    borderWidth       |-> NumOr(o, "borderWidth", 0),
    borderRadius      |-> IF NumOr(o, "borderRadius", Len(sensors)) # 0
                          THEN 100 ELSE 0,
    separateSumForceVector |-> ZeroVec,
    alignSumForceVector    |-> ZeroVec,
    cohesionSumForceVector |-> ZeroVec,
    followTargetVector     |-> ZeroVec,
    followDesiredVelocity  |-> ZeroVec ]

VARIABLES
  ents,        \* the live entities, by id
  system,      \* Burner.System: the pointer location and the touch capability
  tick,        \* frames completed
  computed,    \* entities whose forces are computed in the current frame
  integrated,  \* entities already integrated in the current frame
  snapshot,    \* the entities as they were when the current frame began
  accBefore,   \* per entity: its acceleration when its last applyForces began
  applied,     \* per entity: the applyForce calls of its last applyForces
  options,     \* per entity: the option map it was created from
  colorTable,  \* a ColorTable: its own properties, by name
  lookup,      \* the outcome of the last ColorTable call
  world        \* a World, the window and the elements it repositions

\* The variables of the ColorTable and of the World.
library == << colorTable, lookup, world >>

vars == << ents, system, tick, computed, integrated, snapshot, accBefore, applied,
           options, library >>

Ids == DOMAIN ents

\* ------------------------------------------------------------------------
\* The registry: Burner.System._caches[name].list and getAllItemsByName(name)
\* ------------------------------------------------------------------------
RECURSIVE ListFrom(_, _, _)
ListFrom(es, name, i) ==
  IF i > Cardinality(DOMAIN es) THEN << >>
  ELSE (IF es[i].name = name THEN << i >> ELSE << >>) \o ListFrom(es, name, i + 1)

\* The ids registered under a name, in insertion (id) order.
CacheList(es, name) == ListFrom(es, name, 1)

\* Utils.isInside(obj, container): obj's location lies within the container's
\* bounds, which are centred on the container's location.
IsInside(obj, container) ==
  /\ 2 * Abs(obj.location.x - container.location.x) <= container.width
  /\ 2 * Abs(obj.location.y - container.location.y) <= container.height

\* ------------------------------------------------------------------------
\* Mover: force accumulation, environmental forces, seek
\* ------------------------------------------------------------------------
\* The state of one applyForces call: the calling entity, the applyForce calls
\* made so far, and the local sensorActivated.
Ctx(self) == [self |-> self, log |-> << >>, sensorActivated |-> FALSE]

\* Mover.applyForce(force): acceleration += force / mass.  The log keeps, per
\* call, the stage and source it came from, the vector the behaviour returned
\* (ret) and the force passed to applyForce.
ApplyLogged(ctx, stage, src, ret, force) ==
  [ctx EXCEPT
     !.self.acceleration = VAdd(@, VDiv(force, ctx.self.mass)),
     !.log = Append(@, [stage |-> stage, src |-> src, ret |-> ret, force |-> force])]

ApplyForce(ctx, stage, src, force) == ApplyLogged(ctx, stage, src, force, force)

\* Mover.drag(liquid): opposes the velocity, magnitude c * speed^2.
DragBy(self, liquid, speed) ==
  VMult(NormalizeBy(self.velocity, speed), -FMul(liquid.c, FMul(speed, speed)))

Drag(self, liquid) == DragBy(self, liquid, Mag(self.velocity))

Constrain(n, lo, hi) == IF n < lo THEN lo ELSE IF n > hi THEN hi ELSE n

\* Mover.attract(source): along the line to the source, magnitude
\* G * mass * mass / distance^2 with the distance clamped away from zero.
AttractBy(self, source, force, distance) ==
  VMult(NormalizeBy(force, distance),
        TDiv(source.G * source.mass * self.mass,
             Constrain(distance, self.width, 10 * source.width)
               * Constrain(distance, self.width, 10 * source.width)))

Attract(self, source) ==
  AttractBy(self, source, VSub(source.location, self.location),
            Distance(source.location, self.location))

\* Mover._seek(target): toward the target at maxSpeed, minus the current
\* velocity, clamped to maxSteeringForce.
Seek(self, target) ==
  Limit(VSub(VMult(Normalize(VSub(target.location, self.location)), self.maxSpeed),
             self.velocity),
        self.maxSteeringForce)

\* ------------------------------------------------------------------------
\* Agent: steering behaviours.  Each returns the force (ret) and the agent
\* with its scratch vectors as the call leaves them (self).
\* ------------------------------------------------------------------------
\* A behaviour's result: the force v, held in the scratch vector named field.
Returned(self, field, v) ==
  [self |-> [self EXCEPT ![field] = v], ret |-> v, scratch |-> field]

\* A behaviour's result when no neighbour qualified: a new zero vector; the
\* scratch vector named field was zeroed.
ReturnedZero(self, field) ==
  [self |-> [self EXCEPT ![field] = ZeroVec], ret |-> ZeroVec, scratch |-> "none"]

\* Variant: follow scales and limits the agent's own velocity vector in place
\* instead of its scratch vector.
FollowInPlace(self, target) ==
  [self    |-> [self EXCEPT !.velocity =
                  Limit(VSub(VMult(target.location, self.maxSpeed), self.velocity),
                        self.maxSteeringForce)],
   ret     |-> Limit(VSub(VMult(target.location, self.maxSpeed), self.velocity),
                     self.maxSteeringForce),
   scratch |-> "velocity"]

\* Agent.prototype.follow
Follow(self, target) ==
  Returned(self, "followDesiredVelocity",
    Limit(VSub(VMult(target.location, self.maxSpeed), self.velocity),
          self.maxSteeringForce))

\* Variant: a neighbour at distance 0 is not excluded.
RECURSIVE SeparateLoopNoZeroGuard(_, _, _, _, _)
SeparateLoopNoZeroGuard(self, es, elements, i, acc) ==
  IF i > Len(elements) THEN acc
  ELSE
    LET element == es[elements[i]]
        d       == Distance(self.location, element.location)
        take    == /\ self.className = element.className
                   /\ self.id # element.id
                   /\ d < self.desiredSeparation
        diff    == VDiv(Normalize(VSub(self.location, element.location)), d)
    IN  SeparateLoopNoZeroGuard(self, es, elements, i + 1,
          IF take THEN [sum |-> VAdd(acc.sum, diff), count |-> acc.count + 1]
          ELSE acc)

\* Variant: the difference vector points from the agent to its neighbour.
RECURSIVE SeparateLoopTowards(_, _, _, _, _)
SeparateLoopTowards(self, es, elements, i, acc) ==
  IF i > Len(elements) THEN acc
  ELSE
    LET element == es[elements[i]]
        d       == Distance(self.location, element.location)
        take    == /\ self.className = element.className
                   /\ self.id # element.id
                   /\ d > 0
                   /\ d < self.desiredSeparation
        diff    == VDiv(Normalize(VSub(element.location, self.location)), d)
    IN  SeparateLoopTowards(self, es, elements, i + 1,
          IF take THEN [sum |-> VAdd(acc.sum, diff), count |-> acc.count + 1]
          ELSE acc)

\* The accumulation loop of Agent.prototype.separate over elements[i..].
RECURSIVE SeparateLoop(_, _, _, _, _)
SeparateLoop(self, es, elements, i, acc) ==
  IF i > Len(elements) THEN acc
  ELSE
    LET element == es[elements[i]]
        d       == Distance(self.location, element.location)
        take    == /\ self.className = element.className
                   /\ self.id # element.id
                   /\ d > 0
                   /\ d < self.desiredSeparation
        diff    == VDiv(Normalize(VSub(self.location, element.location)), d)
    IN  SeparateLoop(self, es, elements, i + 1,
          IF take THEN [sum |-> VAdd(acc.sum, diff), count |-> acc.count + 1]
          ELSE acc)

\* Variant: the steering force is not clamped.
SteerUnclamped(self, sum) ==
  VSub(VMult(Normalize(sum), self.maxSpeed), self.velocity)

\* The shared tail: average, (re)direct, scale to maxSpeed, subtract the
\* velocity, clamp.  A count of n is the Number n.
Steer(self, sum) ==
  Limit(VSub(VMult(Normalize(sum), self.maxSpeed), self.velocity),
        self.maxSteeringForce)

SeparateOf(self, acc) ==
  IF acc.count > 0
  THEN Returned(self, "separateSumForceVector",
                Steer(self, VDiv(acc.sum, acc.count * Scale)))
  ELSE ReturnedZero(self, "separateSumForceVector")

\* Agent.prototype.separate
Separate(self, es, elements) ==
  SeparateOf(self, SeparateLoop(self, es, elements, 1, [sum |-> ZeroVec, count |-> 0]))

\* The accumulation loop of Agent.prototype.align over elements[i..].
RECURSIVE AlignLoop(_, _, _, _, _)
AlignLoop(self, es, elements, i, acc) ==
  IF i > Len(elements) THEN acc
  ELSE
    LET element == es[elements[i]]
        d       == Distance(self.location, element.location)
        take    == /\ d > 0
                   /\ d < self.width * 2
                   /\ self.className = element.className
                   /\ self.id # element.id
    IN  AlignLoop(self, es, elements, i + 1,
          IF take THEN [sum |-> VAdd(acc.sum, element.velocity), count |-> acc.count + 1]
          ELSE acc)

AlignOf(self, acc) ==
  IF acc.count > 0
  THEN Returned(self, "alignSumForceVector",
                Steer(self, VDiv(acc.sum, acc.count * Scale)))
  ELSE ReturnedZero(self, "alignSumForceVector")

\* Agent.prototype.align
Align(self, es, elements) ==
  AlignOf(self, AlignLoop(self, es, elements, 1, [sum |-> ZeroVec, count |-> 0]))

\* neighbordist of Agent.prototype.cohesion, in whole units.
CohesionNeighborDist == 10

\* The accumulation loop of Agent.prototype.cohesion over elements[i..].
RECURSIVE CohesionLoop(_, _, _, _, _)
CohesionLoop(self, es, elements, i, acc) ==
  IF i > Len(elements) THEN acc
  ELSE
    LET element == es[elements[i]]
        d       == Distance(self.location, element.location)
        take    == /\ d > 0
                   /\ d < CohesionNeighborDist * Scale
                   /\ self.className = element.className
                   /\ self.id # element.id
    IN  CohesionLoop(self, es, elements, i + 1,
          IF take THEN [sum |-> VAdd(acc.sum, element.location), count |-> acc.count + 1]
          ELSE acc)

\* Variant: the neighbour count is not checked before averaging.
CohesionOfUnguarded(self, acc) ==
  Returned(self, "cohesionSumForceVector",
           Steer(self, VSub(VDiv(acc.sum, acc.count * Scale), self.location)))

CohesionOf(self, acc) ==
  IF acc.count > 0
  THEN Returned(self, "cohesionSumForceVector",
                Steer(self, VSub(VDiv(acc.sum, acc.count * Scale), self.location)))
  ELSE ReturnedZero(self, "cohesionSumForceVector")

\* Agent.prototype.cohesion
Cohesion(self, es, elements) ==
  CohesionOf(self, CohesionLoop(self, es, elements, 1, [sum |-> ZeroVec, count |-> 0]))

\* this.applyForce(r.ret.mult(n)) for a behaviour's result r: mult scales the
\* returned vector in place, which is the scratch vector r.scratch unless the
\* behaviour returned a new vector.
ApplyScaled(ctx, stage, r, n) ==
  ApplyLogged(
    [ctx EXCEPT !.self = IF r.scratch = "none" THEN r.self
                         ELSE [r.self EXCEPT ![r.scratch] = VMult(r.ret, n)]],
    stage, 0, r.ret, VMult(r.ret, n))

\* Variant: separate's scratch vector is the agent's acceleration itself, so
\* zeroing the scratch vector drops what earlier behaviours accumulated.
FlockSeparateAliased(ctx, es, elements) ==
  ApplyScaled(ctx, "separate",
              Separate([ctx.self EXCEPT !.acceleration = ZeroVec], es, elements),
              ctx.self.separateStrength)

FlockSeparate(ctx, es, elements) ==
  ApplyScaled(ctx, "separate", Separate(ctx.self, es, elements), ctx.self.separateStrength)

\* Variant: align is weighted by the cohesion strength.
FlockAlignWrongWeight(ctx, es, elements) ==
  ApplyScaled(ctx, "align", Align(ctx.self, es, elements), ctx.self.cohesionStrength)

FlockAlign(ctx, es, elements) ==
  ApplyScaled(ctx, "align", Align(ctx.self, es, elements), ctx.self.alignStrength)

FlockCohesion(ctx, es, elements) ==
  ApplyScaled(ctx, "cohesion", Cohesion(ctx.self, es, elements), ctx.self.cohesionStrength)

\* Agent.prototype.flock
Flock(ctx, es, elements) ==
  FlockCohesion(FlockAlign(FlockSeparate(ctx, es, elements), es, elements), es, elements)

\* Agent.prototype.getLocation(type); an absent type is "".
GetLocation(self, type) ==
  CASE type = ""  -> Vec(self.location.x, self.location.y)
    [] type = "x" -> self.location.x
    [] type = "y" -> self.location.y
    [] OTHER      -> Null

\* Agent.prototype.getVelocity(type); an absent type is "".
GetVelocity(self, type) ==
  CASE type = ""  -> Vec(self.location.x, self.location.y)
    [] type = "x" -> self.velocity.x
    [] type = "y" -> self.velocity.y
    [] OTHER      -> Null

\* ------------------------------------------------------------------------
\* Agent.prototype.applyForces, stage by stage
\* ------------------------------------------------------------------------
RECURSIVE LiquidLoop(_, _, _, _)
LiquidLoop(ctx, es, list, i) ==
  IF i > Len(list) THEN ctx
  ELSE LET liquid == es[list[i]]
       IN  LiquidLoop(
             IF ctx.self.id # liquid.id /\ IsInside(ctx.self, liquid)
             THEN ApplyForce(ctx, "liquid", liquid.id, Drag(ctx.self, liquid))
             ELSE ctx,
             es, list, i + 1)

LiquidStage(ctx, es) == LiquidLoop(ctx, es, CacheList(es, "Liquid"), 1)

\* Variant: the entity's own registry entry is not skipped.
RECURSIVE AttractLoopNoSelfCheck(_, _, _, _, _)
AttractLoopNoSelfCheck(ctx, es, list, stage, i) ==
  IF i > Len(list) THEN ctx
  ELSE AttractLoopNoSelfCheck(
         ApplyForce(ctx, stage, es[list[i]].id, Attract(ctx.self, es[list[i]])),
         es, list, stage, i + 1)

RECURSIVE AttractLoop(_, _, _, _, _)
AttractLoop(ctx, es, list, stage, i) ==
  IF i > Len(list) THEN ctx
  ELSE LET source == es[list[i]]
       IN  AttractLoop(
             IF ctx.self.id # source.id
             THEN ApplyForce(ctx, stage, source.id, Attract(ctx.self, source))
             ELSE ctx,
             es, list, stage, i + 1)

AttractorStage(ctx, es) == AttractLoop(ctx, es, CacheList(es, "Attractor"), "attractor", 1)

RepellerStage(ctx, es) == AttractLoop(ctx, es, CacheList(es, "Repeller"), "repeller", 1)

\* Math.cos and Math.sin of Utils.degreesToRadians(d), d a multiple of 90.
CosDeg(d) == CASE d % 360 = 0 -> Scale [] d % 360 = 180 -> -Scale [] OTHER -> 0

SinDeg(d) == CASE d % 360 = 90 -> Scale [] d % 360 = 270 -> -Scale [] OTHER -> 0

\* Variant: a sensor's force is applied whether or not the sensor is activated.
RECURSIVE SensorLoopAlwaysApplying(_, _)
SensorLoopAlwaysApplying(ctx, i) ==
  IF i > Len(ctx.self.sensors) THEN ctx
  ELSE SensorLoopAlwaysApplying(
         ApplyForce(ctx, "sensor", i, ctx.self.sensors[i].force), i + 1)

RECURSIVE SensorLoop(_, _)
SensorLoop(ctx, i) ==
  IF i > Len(ctx.self.sensors) THEN ctx
  ELSE
    LET sensor == ctx.self.sensors[i]
        r      == sensor.offsetDistance
        theta  == ctx.self.angle + sensor.offsetAngle
        loc    == VAdd(ctx.self.location,
                       Vec(FMul(r, CosDeg(theta)), FMul(r, SinDeg(theta))))
        placed == [sensor EXCEPT
                     !.location = loc,
                     !.borderStyle = IF i - 1 # 0 THEN "none" ELSE @]
        c1     == [ctx EXCEPT !.self.sensors[i] = placed]
    IN  SensorLoop(
          IF sensor.activated
          THEN [ApplyForce(c1, "sensor", i, sensor.force) EXCEPT !.sensorActivated = TRUE]
          ELSE c1,
          i + 1)

SensorStage(ctx) == SensorLoop(ctx, 1)

\* Variant: the direction is the velocity divided by its magnitude, without
\* normalize's test for a zero magnitude.
MotorStageDividing(ctx) ==
  IF ~ctx.sensorActivated /\ ctx.self.motorSpeed # 0
  THEN ApplyForce(ctx, "motor", 0,
         VMult(VDiv(ctx.self.velocity, Mag(ctx.self.velocity)),
               IF Mag(ctx.self.velocity) > ctx.self.motorSpeed
               THEN -ctx.self.motorSpeed ELSE ctx.self.motorSpeed))
  ELSE ctx

\* Variant: the motor brakes with twice the motor speed.
MotorStageHardBrake(ctx) ==
  IF ~ctx.sensorActivated /\ ctx.self.motorSpeed # 0
  THEN ApplyForce(ctx, "motor", 0,
         IF Mag(ctx.self.velocity) > ctx.self.motorSpeed
         THEN VMult(Normalize(ctx.self.velocity), -2 * ctx.self.motorSpeed)
         ELSE VMult(Normalize(ctx.self.velocity), ctx.self.motorSpeed))
  ELSE ctx

\* Variant: the motor never brakes.
MotorStageNoBrake(ctx) ==
  IF ~ctx.sensorActivated /\ ctx.self.motorSpeed # 0
  THEN ApplyForce(ctx, "motor", 0,
         VMult(Normalize(ctx.self.velocity), ctx.self.motorSpeed))
  ELSE ctx

\* Variant: the motor assigns the cruising velocity directly instead of applying
\* a force.
MotorStageAssigning(ctx) ==
  IF ~ctx.sensorActivated /\ ctx.self.motorSpeed # 0
  THEN [ctx EXCEPT !.self.velocity =
          VMult(Normalize(ctx.self.velocity), ctx.self.motorSpeed)]
  ELSE ctx

MotorStage(ctx) ==
  IF ~ctx.sensorActivated /\ ctx.self.motorSpeed # 0
  THEN LET dir == Normalize(ctx.self.velocity)
       IN  ApplyForce(ctx, "motor", 0,
             IF Mag(ctx.self.velocity) > ctx.self.motorSpeed
             THEN VMult(dir, -ctx.self.motorSpeed)
             ELSE VMult(dir, ctx.self.motorSpeed))
  ELSE ctx

MouseStage(ctx, sys) ==
  IF ctx.self.followMouse /\ ~sys.touch
  THEN ApplyForce(ctx, "mouse", 0,
         Seek(ctx.self, [location |-> Vec(sys.mouse.x, sys.mouse.y)]))
  ELSE ctx

SeekStage(ctx) ==
  IF ctx.self.seekTarget # Null
  THEN ApplyForce(ctx, "seek", 0, Seek(ctx.self, ctx.self.seekTarget))
  ELSE ctx

\* this.applyForce(r.ret) for a behaviour's result r.
ApplyReturned(ctx, stage, r) == ApplyForce([ctx EXCEPT !.self = r.self], stage, 0, r.ret)

\* followTargetVector = tv; applyForce(follow({location: followTargetVector}))
FollowTarget(ctx, tv) ==
  ApplyReturned(ctx, "flow",
    Follow([ctx.self EXCEPT !.followTargetVector = tv], [location |-> tv]))

FlowStage(ctx) ==
  IF ctx.self.flowField # Null
  THEN
    LET ff  == ctx.self.flowField
        res == ff.resolution
        col == ctx.self.location.x \div res
        row == ctx.self.location.y \div res
    IN  IF col \in DOMAIN ff.field
        THEN FollowTarget(ctx,
               IF row \in DOMAIN ff.field[col]
               THEN Vec(ff.field[col][row].x, ff.field[col][row].y)
               ELSE Vec(ctx.self.location.x, ctx.self.location.y))
        ELSE ctx
  ELSE ctx

FlockStage(ctx, es) ==
  IF ctx.self.flocking THEN Flock(ctx, es, CacheList(es, "Agent")) ELSE ctx

\* Variant: flocking is applied before the flow field is followed.
ApplyForcesFlockFirst(es, sys, id) ==
  FlowStage(
    FlockStage(
      SeekStage(
        MouseStage(
          MotorStage(
            SensorStage(
              RepellerStage(
                AttractorStage(
                  LiquidStage(Ctx(es[id]), es), es), es))), sys)), es))

\* Agent.prototype.applyForces of entity id, in the world es.
ApplyForces(es, sys, id) ==
  FlockStage(
    FlowStage(
      SeekStage(
        MouseStage(
          MotorStage(
            SensorStage(
              RepellerStage(
                AttractorStage(
                  LiquidStage(Ctx(es[id]), es), es), es))), sys))), es)

\* ------------------------------------------------------------------------
\* The frame loop
\* ------------------------------------------------------------------------
\* Mover integration: velocity += acceleration, clamped to maxSpeed;
\* location += velocity; acceleration = 0.  A static body only resets.
MoveWith(e, v) ==
  [e EXCEPT !.velocity = v, !.location = VAdd(e.location, v), !.acceleration = ZeroVec]

IntegrateOf(e) ==
  IF e.isStatic THEN [e EXCEPT !.acceleration = ZeroVec]
  ELSE MoveWith(e, Limit(VAdd(e.velocity, e.acceleration), e.maxSpeed))

\* function Agent(opt_options): the name defaults to 'Agent'.
NewAgent(o) == AgentInit(IF Has(o, "name") THEN o ELSE o @@ [name |-> "Agent"])

\* The entities created from a sequence of option maps, ids in creation order.
World(opts) == [i \in 1..Len(opts) |-> NewAgent(opts[i] @@ [id |-> i])]

\* ---- the option maps the entities are created from ----
Sensor(activated, force) ==
  [offsetDistance |-> Scale, offsetAngle |-> 90, location |-> ZeroVec,
   borderStyle |-> "solid", activated |-> activated, force |-> force]

Inactive == Sensor(FALSE, Vec(0, 50))

Active == Sensor(TRUE, Vec(50, 0))

\* A grid of 2-unit cells: column 0 has rows 0 and 1, column 1 has row 0 only.
Field ==
  [resolution |-> 2 * Scale,
   field |-> (0 :> (0 :> Vec(Scale, 0) @@ 1 :> Vec(0, Scale))
              @@ 1 :> (0 :> Vec(-60, 80)))]

\* Grid cells (0, 0): sampled; (1, 1): column present, row absent; (-1, 0): column
\* absent.
SubjLocs == { Vec(0, 0), Vec(300, 300), Vec(-100, 0) }

\* Speeds 0, 3 and 1.
SubjVels == { Vec(0, 0), Vec(300, 0), Vec(-60, -80) }

\* Peers: at the origin, 1 unit from it and 5 units from it.
PeerLocs == { Vec(0, 0), Vec(Scale, 0), Vec(300, 400) }

PeerOpts ==
  { [location |-> l, velocity |-> Vec(0, -Scale), flocking |-> TRUE] : l \in PeerLocs }

\* Sequences of at most n peers.
RECURSIVE PeerSeqs(_)
PeerSeqs(n) ==
  IF n = 0 THEN { << >> }
  ELSE PeerSeqs(n - 1) \cup { Append(q, p) : q \in PeerSeqs(n - 1), p \in PeerOpts }

\* Largest number of flocking peers beside the subject.
MaxPeers == 2

System(touch) ==
  [mouse |-> [x |-> 5 * Scale, y |-> 0], touch |-> touch, gravity |-> Vec(0, 10)]

\* Worlds of flocking agents: the subject (entity 1) and its peers.
FlockWorlds ==
  { [opts |-> << [location |-> l, velocity |-> v, flocking |-> TRUE] @@ p >> \o q,
     sys  |-> System(FALSE)] :
      l \in SubjLocs, v \in SubjVels, q \in PeerSeqs(MaxPeers),
      p \in { [maxSpeed |-> 5 * Scale],
              [maxSteeringForce |-> Scale \div 2, desiredSeparation |-> 10 * Scale,
               seekTarget |-> [location |-> Vec(0, 10 * Scale)], flowField |-> Field],
              [maxSteeringForce |-> 0, name |-> "Attractor"] } }

Liquid(w, c) ==
  [name |-> "Liquid", isStatic |-> TRUE, width |-> w, height |-> w, c |-> c]

Source(name, l, g) ==
  [name |-> name, isStatic |-> TRUE, location |-> l, G |-> g, mass |-> 10 * Scale]

\* A small and a large liquid, both centred on the origin, an attractor and a
\* repeller.
EnvLists ==
  { << >>,
    << Liquid(4 * Scale, 10), Liquid(10 * Scale, 20) >>,
    << Source("Attractor", Vec(0, 300), Scale), Source("Repeller", Vec(400, 0), -Scale) >>,
    << Liquid(4 * Scale, 10), Liquid(10 * Scale, 20),
       Source("Attractor", Vec(0, 300), Scale), Source("Repeller", Vec(400, 0), -Scale) >> }

\* The subject's sensors, motor and kind, with the pointer's touch capability.
EnvProfiles ==
  { [opts |-> [sensors |-> << >>, motorSpeed |-> 2 * Scale], touch |-> FALSE],
    [opts |-> [sensors |-> << Inactive, Inactive >>, motorSpeed |-> 2 * Scale,
               maxSteeringForce |-> 5 * Scale],
     touch |-> FALSE],
    [opts |-> [sensors |-> << Inactive, Active >>, motorSpeed |-> 2 * Scale],
     touch |-> TRUE],
    [opts |-> [sensors |-> << Active, Active >>, motorSpeed |-> 0], touch |-> FALSE],
    [opts |-> [motorSpeed |-> -2 * Scale, name |-> "Attractor", G |-> Scale],
     touch |-> FALSE],
    [opts |-> [motorSpeed |-> 0, name |-> "Attractor", G |-> Scale], touch |-> TRUE] }

\* Worlds of one agent with every behaviour switched on, among liquids,
\* attractors and repellers.
EnvWorlds ==
  { [opts |-> << p.opts @@
                 [location |-> l, velocity |-> v, followMouse |-> TRUE,
                  seekTarget |-> [location |-> Vec(0, 10 * Scale)],
                  flowField |-> Field, flocking |-> TRUE, maxSpeed |-> 5 * Scale] >>
                \o env,
     sys  |-> System(p.touch)] :
      l \in SubjLocs, v \in SubjVels, p \in EnvProfiles, env \in EnvLists }

\* Worlds of one agent driven by its motor alone.
MotorWorlds ==
  { [opts |-> << [location |-> ZeroVec, velocity |-> v, motorSpeed |-> 2 * Scale,
                  maxSpeed |-> 5 * Scale] >>,
     sys  |-> System(FALSE)] :
      v \in SubjVels \cup { Vec(0, 4 * Scale), Vec(2 * Scale, 0) } }

\* Worlds of one agent with every optional behaviour absent: no sources, no or
\* inactive sensors, no motor, flocking off or on, alone or with a peer 20 units
\* from the origin, out of every neighbour radius.
QuietWorlds ==
  { [opts |-> << [location |-> l, velocity |-> v] @@ p >> \o q,
     sys  |-> System(FALSE)] :
      l \in SubjLocs, v \in SubjVels,
      p \in { [flocking |-> FALSE],
              [sensors |-> << Inactive, Inactive >>],
              [flocking |-> TRUE] },
      q \in { << >>,
              << [location |-> Vec(20 * Scale, 0), velocity |-> Vec(0, -Scale),
                  flocking |-> TRUE] >> } }

\* Worlds of two stationary flocking agents 1 unit apart, desiredSeparation 10.
PairWorlds ==
  { [opts |-> << [location |-> pair[1], flocking |-> TRUE,
                  desiredSeparation |-> 10 * Scale] @@ p,
                 [location |-> pair[2], flocking |-> TRUE,
                  desiredSeparation |-> 10 * Scale] @@ p >>,
     sys  |-> System(FALSE)] :
      pair \in { << Vec(0, 0), Vec(Scale, 0) >>, << Vec(0, 0), Vec(60, 80) >>,
                 << Vec(300, 300), Vec(300, 400) >>, << Vec(-100, 0), Vec(-40, -80) >> },
      p \in { [flocking |-> TRUE],
              [maxSpeed |-> 5 * Scale],
              [maxSteeringForce |-> Scale \div 2],
              [maxSpeed |-> 5 * Scale, maxSteeringForce |-> Scale \div 2] } }

\* The numeric options of Agent.init that have a default.
ConfigKeys ==
  { "maxSteeringForce", "desiredSeparation", "separateStrength", "alignStrength",
    "cohesionStrength" }

\* Worlds of one agent created with any subset of the numeric options, all of
\* them 0 or all of them 1.5, with the default width or a width of 3.
ConfigWorlds ==
  { [opts |-> << [k \in S |-> n] @@ p >>, sys |-> System(FALSE)] :
      S \in SUBSET ConfigKeys, n \in { 0, (3 * Scale) \div 2 },
      p \in { [velocity |-> Vec(0, Scale)],
              [velocity |-> Vec(0, Scale), width |-> 3 * Scale, followMouse |-> FALSE] } }

\* Worlds of one agent created with or without a borderRadius (0 or 5) and
\* with or without a sensor.
BorderWorlds ==
  { [opts |-> << b @@ q >>, sys |-> System(FALSE)] :
      b \in { [velocity |-> Vec(Scale, 0)],
              [velocity |-> Vec(Scale, 0), borderRadius |-> 0],
              [velocity |-> Vec(Scale, 0), borderRadius |-> 5] },
      q \in { [flocking |-> FALSE], [sensors |-> << Inactive >>] } }

Worlds ==
  FlockWorlds \cup EnvWorlds \cup MotorWorlds \cup QuietWorlds \cup PairWorlds
    \cup ConfigWorlds \cup BorderWorlds

\* A ColorTable without entries (function ColorTable() {}).
EmptyTable == [name \in {} |-> Null]

Init ==
  \E w \in Worlds :
    /\ ents = World(w.opts)
    /\ system = w.sys
    /\ tick = 0
    /\ computed = {}
    /\ integrated = {}
    /\ snapshot = World(w.opts)
    /\ accBefore = [i \in 1..Len(w.opts) |-> ZeroVec]
    /\ applied = [i \in 1..Len(w.opts) |-> << >>]
    /\ options = w.opts
    /\ colorTable = EmptyTable
    /\ lookup = Null
    /\ world = Null

\* The host applies the world's gravity to the subject (Mover.applyForce)
\* before the subject computes its own forces.
ApplyGravity ==
  /\ tick < MaxTicks
  /\ integrated = {}
  /\ 1 \notin computed
  /\ ents[1].acceleration = ZeroVec
  /\ ents' = [ents EXCEPT ![1].acceleration =
                VAdd(@, VDiv(system.gravity, ents[1].mass))]
  /\ UNCHANGED << system, tick, computed, integrated, snapshot, accBefore, applied >>
  /\ UNCHANGED << options, library >>

\* Entity id leaves its applyForces call as ctx describes.
Record(id, ctx) ==
  /\ ents' = [ents EXCEPT ![id] = ctx.self]
  /\ applied' = [applied EXCEPT ![id] = ctx.log]

\* Phase 1 of a frame: entity id computes and accumulates its forces.
ComputeForces(id) ==
  /\ tick < MaxTicks
  /\ integrated = {}
  /\ id \notin computed
  /\ Record(id, ApplyForces(ents, system, id))
  /\ accBefore' = [accBefore EXCEPT ![id] = ents[id].acceleration]
  /\ computed' = computed \cup {id}
  /\ UNCHANGED << system, tick, integrated, snapshot, options, library >>

\* Phase 2 of a frame: entity id integrates its accumulator.
Integrate(id) ==
  /\ computed = Ids
  /\ id \notin integrated
  /\ ents' = [ents EXCEPT ![id] = IntegrateOf(ents[id])]
  /\ integrated' = integrated \cup {id}
  /\ UNCHANGED << system, tick, computed, snapshot, accBefore, applied >>
  /\ UNCHANGED << options, library >>

\* The frame ends once every entity has integrated.
EndFrame ==
  /\ integrated = Ids
  /\ tick' = tick + 1
  /\ computed' = {}
  /\ integrated' = {}
  /\ snapshot' = ents
  /\ UNCHANGED << ents, system, accBefore, applied, options, library >>

Next ==
  \/ ApplyGravity
  \/ \E id \in Ids : ComputeForces(id)
  \/ \E id \in Ids : Integrate(id)
  \/ EndFrame

Spec == Init /\ [][Next]_vars

\* ------------------------------------------------------------------------
\* An agent driven by its motor alone
\* ------------------------------------------------------------------------
\* Velocities of speed s/100 along +x, -y and the 3-4-5 direction (-3, -4).
Headed(s) == { Vec(s, 0), Vec(0, -s), Vec(-(3 * s) \div 5, -(4 * s) \div 5) }

\* Worlds of one agent of unit mass with motorSpeed m > 0, maxSpeed >= 2m, no
\* sensor or an inactive one, and a nonzero velocity of speed <= 2m.
MotorOnlyWorlds ==
  { [opts |-> << [location |-> ZeroVec, velocity |-> v, motorSpeed |-> m,
                  maxSpeed |-> top] @@ q >>,
     sys  |-> System(FALSE)] :
      m \in { Scale, 2 * Scale },
      top \in { 4 * Scale, 5 * Scale },
      v \in UNION { Headed(speed) : speed \in { 50, 100, 150, 200, 300, 400 } },
      q \in { [mass |-> Scale], [sensors |-> << Inactive >>] } }

MotorInit ==
  \E w \in { x \in MotorOnlyWorlds :
               MagSq(x.opts[1].velocity) <= 4 * x.opts[1].motorSpeed * x.opts[1].motorSpeed } :
    /\ ents = World(w.opts)
    /\ system = w.sys
    /\ tick = 0
    /\ computed = {}
    /\ integrated = {}
    /\ snapshot = World(w.opts)
    /\ accBefore = [i \in 1..Len(w.opts) |-> ZeroVec]
    /\ applied = [i \in 1..Len(w.opts) |-> << >>]
    /\ options = w.opts
    /\ colorTable = EmptyTable
    /\ lookup = Null
    /\ world = Null

\* The frame loop with no force applied from outside.
MotorNext ==
  \/ \E id \in Ids : ComputeForces(id)
  \/ \E id \in Ids : Integrate(id)
  \/ EndFrame

MotorSpec == MotorInit /\ [][MotorNext]_vars

\* The variables of the simulation.
simulation ==
  << ents, system, tick, computed, integrated, snapshot, accBefore, applied, options >>

\* ------------------------------------------------------------------------
\* ColorTable
\* ------------------------------------------------------------------------
\* undefined
Undefined == [undefined |-> TRUE]

\* A JavaScript value used as a name, with the data type Interface.getDataType
\* reports for it.
Str(v) == [type |-> "string", value |-> v]

Color(r, g, b) == [type |-> "array", value |-> << r, g, b >>]

\* What a ColorTable inherits: ColorTable.prototype.addColor, .name and
\* .getColor, and Object.prototype's members.
Inherited == { "addColor", "name", "getColor", "constructor", "toString" }

\* this[name]: an own property, else an inherited one, else undefined.
Property(table, name) ==
  IF name \in DOMAIN table THEN table[name]
  ELSE IF name \in Inherited THEN [inherited |-> name]
  ELSE Undefined

\* value.field, undefined when the value has no such property.
Member(value, field) == IF field \in DOMAIN value THEN value[field] ELSE Undefined

\* Interface.checkRequiredParams(options, {name: 'string', startColor: 'array',
\* endColor: 'array'})
CheckRequiredParams(o) ==
  /\ { "name", "startColor", "endColor" } \subseteq DOMAIN o
  /\ o.name.type = "string"
  /\ o.startColor.type = "array"
  /\ o.endColor.type = "array"

\* ColorTable.prototype.addColor
AddColorOf(table, o) ==
  IF CheckRequiredParams(o)
  THEN [n \in DOMAIN table \cup { o.name.value } |->
          IF n = o.name.value
          THEN [startColor |-> o.startColor, endColor |-> o.endColor]
          ELSE table[n]]
  ELSE table

\* The value getColor returns for the truthy property color.
ColorOf(color, startColor, endColor) ==
  LET startCol == IF startColor THEN Member(color, "startColor") ELSE Undefined
      endCol   == IF endColor THEN Member(color, "endColor") ELSE Undefined
  IN  IF (startCol # Undefined /\ endCol # Undefined)
           \/ (startCol = Undefined /\ endCol = Undefined)
      THEN [startColor |-> Member(color, "startColor"),
            endColor |-> Member(color, "endColor")]
      ELSE IF startCol # Undefined THEN startCol
      ELSE endCol

\* ColorTable.prototype.getColor: what the call does, a return or a throw.
GetColorOf(table, name, startColor, endColor) ==
  IF name.type = "string"
  THEN IF Property(table, name.value) # Undefined
       THEN [outcome |-> "return",
             value |-> ColorOf(Property(table, name.value), startColor, endColor)]
       ELSE [outcome |-> "throw", value |-> "does not exist"]
  ELSE [outcome |-> "throw", value |-> "You must pass a name (string)"]

\* ---- the calls made ----
ColorNames ==
  { Str("heat"), Str("cold"), Str("name"), Str("toString"), Str("fire"), Str(""),
    [type |-> "number", value |-> "7"], [type |-> "undefined", value |-> ""] }

ColorOptions ==
  { [name |-> Str(n), startColor |-> c, endColor |-> Color(175, 47, 0)] :
      n \in { "heat", "cold", "name" }, c \in { Color(255, 132, 86), Color(0, 0, 0) } }
    \cup { [name |-> Str("fire")], [name |-> [type |-> "number", value |-> "7"],
                                   startColor |-> Color(0, 0, 0),
                                   endColor |-> Color(175, 47, 0)] }

ColorInit ==
  /\ ents = << >>
  /\ system = System(FALSE)
  /\ tick = 0
  /\ computed = {}
  /\ integrated = {}
  /\ snapshot = << >>
  /\ accBefore = << >>
  /\ applied = << >>
  /\ options = << >>
  /\ colorTable = EmptyTable
  /\ lookup = Null
  /\ world = Null

AddColor(o) ==
  /\ colorTable' = AddColorOf(colorTable, o)
  /\ lookup' = [call |-> "addColor", name |-> o.name, before |-> colorTable]
  /\ UNCHANGED << simulation, world >>

GetColor(name, startColor, endColor) ==
  /\ lookup' = [call |-> "getColor", name |-> name, before |-> colorTable]
                 @@ GetColorOf(colorTable, name, startColor, endColor)
  /\ UNCHANGED << simulation, colorTable, world >>

ColorNext ==
  \/ \E o \in ColorOptions : AddColor(o)
  \/ \E name \in ColorNames, startColor, endColor \in BOOLEAN :
       GetColor(name, startColor, endColor)

ColorSpec == ColorInit /\ [][ColorNext]_vars

\* ------------------------------------------------------------------------
\* World
\* ------------------------------------------------------------------------
\* Window resize events handled by one World.
MaxResizes == 3

Size(w, h) == [width |-> w, height |-> h]

\* function World(): the world takes the window's size; configure() makes
\* document.body its element (isBody), update({el: ...}) another element with
\* that element's size.
NewWorld(window, isBody, size, elements) ==
  [ width    |-> IF isBody THEN window.width ELSE size.width,
    height   |-> IF isBody THEN window.height ELSE size.height,
    isBody   |-> isBody,
    window   |-> window,
    elements |-> elements,
    original |-> [ size      |-> IF isBody THEN window ELSE size,
                   locations |-> [i \in DOMAIN elements |-> elements[i].location] ],
    resizes  |-> << >> ]

\* Does any element control the camera?
ControlCamera(elements) == \E i \in DOMAIN elements : elements[i].controlCamera

\* The elements as World.prototype.resize repositions them.
Repositioned(w, window) ==
  [i \in DOMAIN w.elements |->
     [w.elements[i] EXCEPT
        !.location = [x |-> TDiv(window.width * w.elements[i].location.x, w.width),
                      y |-> TDiv(window.height * w.elements[i].location.y, w.height)]]]

\* World.prototype.resize with the window at the given size.
ResizeOf(w, window) ==
  IF ControlCamera(w.elements) THEN w
  ELSE [w EXCEPT
          !.elements = Repositioned(w, window),
          !.width    = IF w.isBody THEN window.width ELSE @,
          !.height   = IF w.isBody THEN window.height ELSE @]

\* ---- the worlds and windows ----
WindowSizes == { Size(400, 400), Size(800, 400), Size(200, 200) }

Element(x, y, controlCamera) ==
  [location |-> [x |-> x, y |-> y], controlCamera |-> controlCamera]

ElementLists ==
  { << Element(400, 400, FALSE) >>,
    << Element(800, 0, FALSE), Element(400, 800, FALSE) >>,
    << Element(400, 400, FALSE), Element(800, 0, TRUE) >> }

WorldInit ==
  /\ ents = << >>
  /\ system = System(FALSE)
  /\ tick = 0
  /\ computed = {}
  /\ integrated = {}
  /\ snapshot = << >>
  /\ accBefore = << >>
  /\ applied = << >>
  /\ options = << >>
  /\ colorTable = EmptyTable
  /\ lookup = Null
  /\ \E window \in WindowSizes, isBody \in BOOLEAN, elements \in ElementLists :
       world = NewWorld(window, isBody, Size(400, 400), elements)

\* The window takes the given size (possibly the size it has) and its resize
\* event runs World.prototype.resize.
WindowResize(window) ==
  /\ Len(world.resizes) < MaxResizes
  /\ world' = [ResizeOf(world, window) EXCEPT
                 !.window  = window,
                 !.resizes = Append(@,
                   [ window    |-> window,
                     locations |-> [i \in DOMAIN world.elements |->
                                      ResizeOf(world, window).elements[i].location] ])]
  /\ UNCHANGED << simulation, colorTable, lookup >>

WorldNext == \E window \in WindowSizes : WindowResize(window)

WorldSpec == WorldInit /\ [][WorldNext]_vars

\* ------------------------------------------------------------------------
\* Properties
\* ------------------------------------------------------------------------
\* The applyForce calls entity id's last applyForces made for one stage.
Entries(id, stage) == SelectSeq(applied[id], LAMBDA e : e.stage = stage)

Stages(id) == { applied[id][i].stage : i \in DOMAIN applied[id] }

\* Entity id has computed its forces in this frame and no entity has moved yet.
Computed(id) == id \in computed /\ integrated = {}

StageRank(stage) ==
  CASE stage = "liquid"    -> 1
    [] stage = "attractor" -> 2
    [] stage = "repeller"  -> 3
    [] stage = "sensor"    -> 4
    [] stage = "motor"     -> 5
    [] stage = "mouse"     -> 6
    [] stage = "seek"      -> 7
    [] stage = "flow"      -> 8
    [] stage = "separate"  -> 9
    [] stage = "align"     -> 10
    [] stage = "cohesion"  -> 11

RECURSIVE SumAccel(_, _, _)
\* The sum of force / mass over log[i..].
SumAccel(log, mass, i) ==
  IF i > Len(log) THEN ZeroVec
  ELSE VAdd(VDiv(log[i].force, mass), SumAccel(log, mass, i + 1))

\* C1. Two-phase frame: no entity integrates before every entity has computed
\* its forces; while forces are being computed every location and velocity is
\* still the one the frame began with; and the forces an entity applied are
\* those computed from the frame's initial snapshot, whatever the order in
\* which the entities were processed.
C1_TwoPhaseFrame ==
  /\ integrated # {} => computed = Ids
  /\ integrated = {} =>
       \A id \in Ids : /\ ents[id].location = snapshot[id].location
                       /\ ents[id].velocity = snapshot[id].velocity
  /\ \A id \in computed : applied[id] = ApplyForces(snapshot, system, id).log

\* A second frame in which three entities have computed their forces and one
\* of them aligned with a peer's velocity.
C1_Witness ==
  /\ tick = 1
  /\ computed = Ids
  /\ integrated = {}
  /\ Cardinality(Ids) >= 3
  /\ \E id \in Ids : \E i \in DOMAIN applied[id] :
       applied[id][i].stage = "align" /\ applied[id][i].force # ZeroVec

SteeringStages == { "mouse", "seek", "flow", "separate", "align", "cohesion" }

\* C2. Clamp invariant: every vector returned by _seek, follow, separate, align
\* and cohesion has magnitude at most the agent's maxSteeringForce (>= 0).
C2_ClampInvariant ==
  \A id \in Ids : \A i \in DOMAIN applied[id] :
    (applied[id][i].stage \in SteeringStages /\ ents[id].maxSteeringForce >= 0) =>
      /\ Finite(applied[id][i].ret)
      /\ MagSq(applied[id][i].ret) <= ents[id].maxSteeringForce * ents[id].maxSteeringForce

\* An agent with a positive maxSteeringForce whose seek, follow, separate,
\* align and cohesion forces were all nonzero, the seek force cut down from a
\* longer vector.
C2_Witness ==
  \E id \in Ids :
    /\ Computed(id)
    /\ ents[id].maxSteeringForce > 0
    /\ \A st \in { "seek", "flow", "separate", "align", "cohesion" } :
         \E i \in DOMAIN applied[id] :
           applied[id][i].stage = st /\ applied[id][i].ret # ZeroVec
    /\ Mag(VSub(VMult(Normalize(VSub(ents[id].seekTarget.location, ents[id].location)),
                      ents[id].maxSpeed),
                ents[id].velocity)) > ents[id].maxSteeringForce

\* C3. Stage order: within one applyForces call the applyForce calls follow the
\* order liquid, attractor, repeller, sensors (in declared order), motor,
\* pointer, seek target, flow field, separate, align, cohesion.
C3_StageOrder ==
  \A id \in Ids : \A i, j \in DOMAIN applied[id] :
    i < j =>
      /\ StageRank(applied[id][i].stage) <= StageRank(applied[id][j].stage)
      /\ (applied[id][i].stage = "sensor" /\ applied[id][j].stage = "sensor")
           => applied[id][i].src < applied[id][j].src

\* One call that applied forces of every stage a call with activated sensors
\* can combine, two of them sensor forces.
C3_Witness ==
  \E id \in Ids :
    /\ Stages(id) = { "liquid", "attractor", "repeller", "sensor", "mouse",
                      "seek", "flow", "separate", "align", "cohesion" }
    /\ Len(Entries(id, "sensor")) = 2

\* C4. Additivity: after applyForces the acceleration is the acceleration before
\* the call plus the sum of force / mass over every applyForce call of the call.
C4_Additive ==
  \A id \in Ids :
    Computed(id) =>
      ents[id].acceleration =
        VAdd(accBefore[id], SumAccel(applied[id], ents[id].mass, 1))

\* A call that began with a nonzero acceleration and applied at least five
\* nonzero forces, flocking forces included.
C4_Witness ==
  \E id \in Ids :
    /\ Computed(id)
    /\ accBefore[id] # ZeroVec
    /\ Cardinality({ i \in DOMAIN applied[id] : applied[id][i].force # ZeroVec }) >= 5
    /\ "cohesion" \in Stages(id)

\* The grid cell of entity e's flow field that e occupies has a sampled vector.
CellSampled(e) ==
  LET col == e.location.x \div e.flowField.resolution
      row == e.location.y \div e.flowField.resolution
  IN  col \in DOMAIN e.flowField.field /\ row \in DOMAIN e.flowField.field[col]

\* C5. Flow-field fallback, as claimed: when the agent's grid cell has no
\* sampled vector (column missing, or column present and row missing) the
\* flow-field step adds nothing to the agent's acceleration.
C5_FallbackAddsNothing ==
  \A id \in Ids :
    (Computed(id) /\ ents[id].flowField # Null /\ ~CellSampled(ents[id])) =>
      \A i \in DOMAIN applied[id] :
        applied[id][i].stage = "flow" =>
          VDiv(applied[id][i].force, ents[id].mass) = ZeroVec

FlockStages == { "separate", "align", "cohesion" }

\* C6. separate, align and cohesion return the zero vector when the elements
\* list is empty or holds only the calling agent: in every applyForces call
\* made with such an 'Agent' list, and for every entity state reached, on the
\* empty list and on the list of the entity alone.
C6_AloneIsZero ==
  \A id \in Ids :
    /\ (\A n \in DOMAIN CacheList(ents, "Agent") : CacheList(ents, "Agent")[n] = id) =>
         \A i \in DOMAIN applied[id] :
           applied[id][i].stage \in FlockStages => applied[id][i].ret = ZeroVec
    /\ \A elements \in { << >>, << id >> } :
         /\ Separate(ents[id], ents, elements).ret = ZeroVec
         /\ Align(ents[id], ents, elements).ret = ZeroVec
         /\ Cohesion(ents[id], ents, elements).ret = ZeroVec

\* A moving flocking agent, away from the origin, that is the only 'Agent' and
\* has applied its three flocking forces.
C6_Witness ==
  \E id \in Ids :
    /\ Computed(id)
    /\ CacheList(ents, "Agent") = << id >>
    /\ ents[id].velocity # ZeroVec
    /\ ents[id].location # ZeroVec
    /\ Len(SelectSeq(applied[id], LAMBDA e : e.stage \in FlockStages)) = 3

\* The same-kind entities other than id that are exactly where id is.
Coincident(id) ==
  { o \in Ids \ {id} : /\ ents[o].className = ents[id].className
                       /\ ents[o].location = ents[id].location }

\* C7. Zero-distance degeneracy: with a same-kind agent at exactly the same
\* location and desiredSeparation > 0, separate returns a finite vector, the
\* one it returns for the list without the coincident agents.
C7_ZeroDistance ==
  \A id \in Ids :
    (Computed(id) /\ ents[id].desiredSeparation > 0 /\ Coincident(id) # {}) =>
      \A i \in DOMAIN applied[id] :
        applied[id][i].stage = "separate" =>
          /\ Finite(applied[id][i].ret)
          /\ Finite(applied[id][i].force)
          /\ applied[id][i].ret =
               Separate(ents[id], ents,
                        SelectSeq(CacheList(ents, "Agent"),
                                  LAMBDA o : o \notin Coincident(id))).ret

\* An agent with one peer at its own location and another 1 unit away, whose
\* separate returned a nonzero force.
C7_Witness ==
  \E id \in Ids :
    /\ Computed(id)
    /\ ents[id].desiredSeparation > 0
    /\ Coincident(id) # {}
    /\ \E i \in DOMAIN applied[id] :
         applied[id][i].stage = "separate" /\ applied[id][i].ret # ZeroVec

Dot(a, b) == a.x * b.x + a.y * b.y

Cross(a, b) == a.x * b.y - a.y * b.x

\* The fixed-point arithmetic normalizes v and scales it by m without rounding.
ExactMotor(v, m) ==
  LET n == Mag(v)
  IN  /\ n * n = MagSq(v)
      /\ n # 0 =>
           /\ (v.x * Scale) % n = 0
           /\ (v.y * Scale) % n = 0
           /\ (TDiv(v.x * Scale, n) * m) % Scale = 0
           /\ (TDiv(v.y * Scale, n) * m) % Scale = 0

\* When the motor force is applied: no sensor was activated and motorSpeed # 0.
MotorRuns(id) ==
  /\ Len(Entries(id, "motor")) <= 1
  /\ Len(Entries(id, "motor")) = 1 <=>
       (Entries(id, "sensor") = << >> /\ ents[id].motorSpeed # 0)
  /\ (\E n \in DOMAIN ents[id].sensors : ents[id].sensors[n].activated) <=>
       Entries(id, "sensor") # << >>

\* C8, as claimed: exactly one motor force is applied iff no sensor was
\* activated and motorSpeed is nonzero; it lies along the velocity with
\* magnitude motorSpeed, opposing the velocity when the speed is strictly
\* greater than motorSpeed and along it otherwise.
C8_MotorAsClaimed ==
  \A id \in Ids :
    Computed(id) =>
      /\ MotorRuns(id)
      /\ \A i \in DOMAIN applied[id] :
           (applied[id][i].stage = "motor"
              /\ ExactMotor(ents[id].velocity, ents[id].motorSpeed)) =>
             LET f == applied[id][i].force
                 v == ents[id].velocity
                 m == ents[id].motorSpeed
             IN  /\ Cross(f, v) = 0
                 /\ Mag(f) = m
                 /\ IF Mag(v) > m THEN Dot(f, v) < 0 ELSE Dot(f, v) > 0

\* C8, amended: exactly one motor force is applied iff no sensor was activated
\* and motorSpeed is nonzero.  With a nonzero velocity it lies along the
\* velocity with magnitude |motorSpeed|, opposing the velocity when motorSpeed
\* is positive and the speed is strictly greater than it, and along the
\* velocity otherwise; with a zero velocity it is the zero vector.
C8_MotorMaintenance ==
  \A id \in Ids :
    Computed(id) =>
      /\ MotorRuns(id)
      /\ \A i \in DOMAIN applied[id] :
           applied[id][i].stage = "motor" =>
             LET f == applied[id][i].force
                 v == ents[id].velocity
                 m == ents[id].motorSpeed
                 brake == m > 0 /\ Mag(v) > m
             IN  /\ v = ZeroVec => f = ZeroVec
                 /\ MagSq(f) <= m * m
                 /\ IF brake THEN Dot(f, v) <= 0 ELSE Dot(f, v) >= 0
                 /\ (v # ZeroVec /\ ExactMotor(v, m)) =>
                      /\ Cross(f, v) = 0
                      /\ MagSq(f) = m * m
                      /\ IF brake THEN Dot(f, v) < 0 ELSE Dot(f, v) > 0

\* An agent without activated sensors, faster than its positive motorSpeed,
\* that applied a braking motor force.
C8_Witness ==
  \E id \in Ids :
    /\ Computed(id)
    /\ Len(ents[id].sensors) = 2
    /\ ents[id].motorSpeed > 0
    /\ Mag(ents[id].velocity) > ents[id].motorSpeed
    /\ ExactMotor(ents[id].velocity, ents[id].motorSpeed)
    /\ Len(Entries(id, "motor")) = 1
    /\ Entries(id, "motor")[1].force # ZeroVec

\* C9. flock applies exactly three forces, in the order separate, align,
\* cohesion, each the behaviour's result for the same elements, location and
\* velocity, scaled by that behaviour's own strength; an agent that does not
\* flock applies none.
C9_Flock ==
  \A id \in Ids :
    Computed(id) =>
      LET fl       == SelectSeq(applied[id], LAMBDA e : e.stage \in FlockStages)
          elements == CacheList(ents, "Agent")
      IN  IF ents[id].flocking
          THEN /\ Len(fl) = 3
               /\ fl[1].stage = "separate"
               /\ fl[2].stage = "align"
               /\ fl[3].stage = "cohesion"
               /\ fl[1].ret = Separate(ents[id], ents, elements).ret
               /\ fl[2].ret = Align(ents[id], ents, elements).ret
               /\ fl[3].ret = Cohesion(ents[id], ents, elements).ret
               /\ fl[1].force = VMult(fl[1].ret, ents[id].separateStrength)
               /\ fl[2].force = VMult(fl[2].ret, ents[id].alignStrength)
               /\ fl[3].force = VMult(fl[3].ret, ents[id].cohesionStrength)
          ELSE fl = << >>

\* A flocking agent among two peers whose three flocking forces are nonzero
\* and pairwise different.
C9_Witness ==
  \E id \in Ids :
    /\ Computed(id)
    /\ Cardinality(Ids) = 3
    /\ Len(Entries(id, "separate")) = 1
    /\ Entries(id, "separate")[1].force # ZeroVec
    /\ Entries(id, "align")[1].force # ZeroVec
    /\ Entries(id, "cohesion")[1].force # ZeroVec
    /\ Entries(id, "separate")[1].force # Entries(id, "align")[1].force
    /\ Entries(id, "align")[1].force # Entries(id, "cohesion")[1].force

\* The applyForce calls of stage that entity id's last applyForces made for
\* source src.
From(id, stage, src) ==
  SelectSeq(applied[id], LAMBDA e : e.stage = stage /\ e.src = src)

Members(list) == { list[n] : n \in DOMAIN list }

\* C10. Environmental sources: every Liquid that contains the agent contributes
\* exactly one drag force, every Attractor and every Repeller exactly one
\* force; a registry entry with the agent's own id and a Liquid that does not
\* contain the agent contribute nothing.
C10_Sources ==
  \A id \in Ids :
    Computed(id) =>
      /\ \A l \in Members(CacheList(ents, "Liquid")) :
           IF l # id /\ IsInside(ents[id], ents[l])
           THEN /\ Len(From(id, "liquid", l)) = 1
                /\ From(id, "liquid", l)[1].force = Drag(ents[id], ents[l])
           ELSE From(id, "liquid", l) = << >>
      /\ \A a \in Members(CacheList(ents, "Attractor")) :
           Len(From(id, "attractor", a)) = IF a # id THEN 1 ELSE 0
      /\ \A r \in Members(CacheList(ents, "Repeller")) :
           Len(From(id, "repeller", r)) = IF r # id THEN 1 ELSE 0
      /\ \A i \in DOMAIN applied[id] :
           /\ applied[id][i].stage = "liquid" =>
                applied[id][i].src \in Members(CacheList(ents, "Liquid"))
           /\ applied[id][i].stage = "attractor" =>
                applied[id][i].src \in Members(CacheList(ents, "Attractor"))
           /\ applied[id][i].stage = "repeller" =>
                applied[id][i].src \in Members(CacheList(ents, "Repeller"))

\* A moving entity that is itself registered as an Attractor, inside two
\* overlapping liquids, beside another attractor and a repeller: two nonzero
\* drag forces, one attractor force, one repeller force.
C10_Witness ==
  \E id \in Ids :
    /\ Computed(id)
    /\ id \in Members(CacheList(ents, "Attractor"))
    /\ Len(Entries(id, "liquid")) = 2
    /\ Entries(id, "liquid")[1].force # ZeroVec
    /\ Entries(id, "liquid")[2].force # ZeroVec
    /\ Len(Entries(id, "attractor")) = 1
    /\ Len(Entries(id, "repeller")) = 1

\* The fields of an agent that its own applyForces writes: the accumulator,
\* the sensors it places and the scratch vectors.
Accumulators ==
  { "acceleration", "sensors", "separateSumForceVector", "alignSumForceVector",
    "cohesionSumForceVector", "followTargetVector", "followDesiredVelocity" }

\* Everything else an entity holds: identity, location, velocity, limits,
\* seek target, flow field.
Public(e) == [f \in DOMAIN e \ Accumulators |-> e[f]]

\* What a sensor holds besides its location and border style.
SensorFixed(sensor) == [f \in DOMAIN sensor \ { "location", "borderStyle" } |-> sensor[f]]

\* C11. An applyForces call of agent id changes only id's acceleration, the
\* location and border style of id's sensors and id's scratch vectors: id's
\* location, velocity, seek target and flow field, every other entity, the
\* registry's membership and the system are left as they were.
C11_ReadOnly ==
  [][ \A id \in Ids :
        (id \in computed' /\ id \notin computed) =>
          /\ DOMAIN ents' = DOMAIN ents
          /\ \A o \in Ids \ {id} : ents'[o] = ents[o]
          /\ Public(ents'[id]) = Public(ents[id])
          /\ DOMAIN ents'[id].sensors = DOMAIN ents[id].sensors
          /\ \A n \in DOMAIN ents[id].sensors :
               SensorFixed(ents'[id].sensors[n]) = SensorFixed(ents[id].sensors[n])
          /\ system' = system ]_vars

\* An agent among two liquids, an attractor and a repeller that has placed its
\* two sensors, followed its flow field and accumulated an acceleration.
C11_Witness ==
  \E id \in Ids :
    /\ Computed(id)
    /\ Cardinality(Ids) = 5
    /\ ents[id].acceleration # accBefore[id]
    /\ Len(ents[id].sensors) = 2
    /\ ents[id].sensors[1].location # snapshot[id].sensors[1].location
    /\ ents[id].followDesiredVelocity # ZeroVec
    /\ { "liquid", "attractor", "repeller", "seek", "flow", "cohesion" } \subseteq Stages(id)

\* No entity qualifies as a flocking neighbour of id: each other 'Agent' is of
\* another kind, at distance 0, or out of the separation, alignment and
\* cohesion radii.
NoNeighbour(id) ==
  \A o \in Members(CacheList(ents, "Agent")) \ {id} :
    \/ ents[o].className # ents[id].className
    \/ Distance(ents[id].location, ents[o].location) = 0
    \/ /\ Distance(ents[id].location, ents[o].location) >= ents[id].desiredSeparation
       /\ Distance(ents[id].location, ents[o].location) >= ents[id].width * 2
       /\ Distance(ents[id].location, ents[o].location) >= CohesionNeighborDist * Scale

\* Every optional input of id's applyForces is absent.
Quiet(id) ==
  /\ CacheList(ents, "Liquid") = << >>
  /\ CacheList(ents, "Attractor") = << >>
  /\ CacheList(ents, "Repeller") = << >>
  /\ \A n \in DOMAIN ents[id].sensors : ~ents[id].sensors[n].activated
  /\ ents[id].motorSpeed = 0
  /\ ~ents[id].followMouse
  /\ ents[id].seekTarget = Null
  /\ ents[id].flowField = Null
  /\ ents[id].flocking => NoNeighbour(id)

\* C12. Absent optional data is a no-op: with no liquids, attractors or
\* repellers, no activated sensor, motorSpeed 0, followMouse false, no seek
\* target, no flow field and flocking off or without a qualifying neighbour,
\* applyForces leaves the acceleration as it was before the call, finite, and
\* applies no force other than the zero vector.
C12_AbsentIsNoOp ==
  \A id \in Ids :
    (Computed(id) /\ Quiet(id)) =>
      /\ ents[id].acceleration = accBefore[id]
      /\ Finite(ents[id].acceleration)
      /\ \A i \in DOMAIN applied[id] : applied[id][i].force = ZeroVec

\* A moving flocking agent with a same-kind peer out of range, under gravity,
\* after its applyForces.
C12_Witness ==
  \E id \in Ids :
    /\ Computed(id)
    /\ Quiet(id)
    /\ ents[id].flocking
    /\ Cardinality(Ids) = 2
    /\ ents[id].velocity # ZeroVec
    /\ accBefore[id] # ZeroVec

\* a and b are the only two agents, of the same kind, stationary, 1 unit
\* apart, each with desiredSeparation 10 and able to steer (maxSpeed and
\* maxSteeringForce positive, as they are by default).
Pair(a, b) ==
  /\ a # b
  /\ Members(CacheList(ents, "Agent")) = {a, b}
  /\ ents[a].className = ents[b].className
  /\ Distance(ents[a].location, ents[b].location) = Scale
  /\ \A e \in {a, b} :
       /\ ents[e].velocity = ZeroVec
       /\ ents[e].desiredSeparation = 10 * Scale
       /\ ents[e].maxSpeed > 0
       /\ ents[e].maxSteeringForce > 0

\* What separate returns to entity id in the current state.
SeparateNow(id) == Separate(ents[id], ents, CacheList(ents, "Agent")).ret

ZeroMotor(id) ==
  /\ ents[id].motorSpeed = 2 * Scale
  /\ ents[id].sensors = << >>
  /\ ents[id].velocity = ZeroVec

\* C14. Zero-velocity motor scenario: the motor step applies one force, the
\* normalized zero velocity scaled by motorSpeed; the force and the
\* acceleration are finite, and an applyForces call from the same state (the
\* frame's snapshot, or the state the call left) applies the identical forces.
C14_ZeroVelocityMotor ==
  \A id \in Ids :
    (Computed(id) /\ ZeroMotor(id)) =>
      /\ Len(Entries(id, "motor")) = 1
      /\ Entries(id, "motor")[1].force =
           VMult(Normalize(ents[id].velocity), ents[id].motorSpeed)
      /\ Finite(Entries(id, "motor")[1].force)
      /\ Finite(ents[id].acceleration)
      /\ applied[id] = ApplyForces(snapshot, system, id).log
      /\ applied[id] = ApplyForces(ents, system, id).log

\* An agent at rest with motorSpeed 2 and no sensors that has applied its motor
\* force in a second frame, from the state it had in the first.
C14_Witness ==
  \E id \in Ids :
    /\ tick = 1
    /\ Computed(id)
    /\ ZeroMotor(id)
    /\ ents[id].location = ZeroVec
    /\ Len(Entries(id, "motor")) = 1

C16_GetVelocity ==
  \A id \in Ids :
    /\ GetVelocity(ents[id], "") = Vec(ents[id].velocity.x, ents[id].velocity.y)
    /\ GetVelocity(ents[id], "x") = ents[id].velocity.x
    /\ GetVelocity(ents[id], "y") = ents[id].velocity.y

\* C17, as claimed: Agent.init sets borderRadius to the supplied
\* options.borderRadius and to 0 when none is supplied, however many sensors
\* the agent has.
C17_BorderRadius ==
  \A id \in Ids :
    ents[id].borderRadius =
      IF Has(options[id], "borderRadius") THEN options[id].borderRadius ELSE 0

\* C18, as claimed: after any sequence of addColor calls, getColor with a
\* string name never added through addColor throws, getColor with a non-string
\* name throws, and the table's entries are unchanged.
C18_FailFast ==
  (lookup # Null /\ lookup.call = "getColor") =>
    /\ colorTable = lookup.before
    /\ (lookup.name.type # "string" \/ lookup.name.value \notin DOMAIN lookup.before) =>
         lookup.outcome = "throw"

\* C19, as claimed: when no element controls the camera, a resize to the size
\* of the previous resize leaves every element's location unchanged, whether or
\* not the world's element is document.body; and after any sequence of resizes
\* each location is the original location scaled by the current window size
\* over the original world size.
C19_ResizeIdempotent ==
  (world # Null /\ ~ControlCamera(world.elements)) =>
    /\ \A n \in 1..(Len(world.resizes) - 1) :
         world.resizes[n + 1].window = world.resizes[n].window =>
           world.resizes[n + 1].locations = world.resizes[n].locations
    /\ world.resizes # << >> =>
         \A i \in DOMAIN world.elements :
           /\ world.elements[i].location.x * world.original.size.width =
                world.original.locations[i].x * world.window.width
           /\ world.elements[i].location.y * world.original.size.height =
                world.original.locations[i].y * world.window.height

\* The motor-only setting: unit mass, motorSpeed m > 0, maxSpeed >= 2m, no
\* activated sensor, created with a nonzero velocity of speed <= 2m.
MotorOnly(id) ==
  /\ ents[id].mass = Scale
  /\ ents[id].motorSpeed > 0
  /\ ents[id].maxSpeed >= 2 * ents[id].motorSpeed
  /\ \A n \in DOMAIN ents[id].sensors : ~ents[id].sensors[n].activated
  /\ options[id].velocity # ZeroVec
  /\ MagSq(options[id].velocity) <= 4 * ents[id].motorSpeed * ents[id].motorSpeed

\* C20. Motor-only speed bound: under the motor alone, after every frame the
\* speed is in the range 0 < speed <= 2 * motorSpeed and the velocity keeps the
\* direction it was created with.
C20_MotorSpeedBound ==
  \A id \in Ids :
    MotorOnly(id) =>
      /\ ents[id].velocity # ZeroVec
      /\ MagSq(ents[id].velocity) <= 4 * ents[id].motorSpeed * ents[id].motorSpeed
      /\ Cross(ents[id].velocity, options[id].velocity) = 0
      /\ Dot(ents[id].velocity, options[id].velocity) > 0
      /\ Finite(ents[id].velocity)

\* After two frames, an agent created faster than its motorSpeed on the 3-4-5
\* heading has braked and then accelerated back to its first velocity.
C20_Witness ==
  \E id \in Ids :
    /\ tick = 2
    /\ MotorOnly(id)
    /\ MagSq(options[id].velocity) > ents[id].motorSpeed * ents[id].motorSpeed
    /\ options[id].velocity.x # 0
    /\ options[id].velocity.y # 0
    /\ ents[id].velocity = options[id].velocity
    /\ ents[id].location # ZeroVec
====
